---- MODULE Spec2Model ----
(***************************************************************************)
(* Model of opensubdiv/osd/glXFBEvaluator.cpp: the OpenGL transform        *)
(* feedback evaluator (GLXFBEvaluator) and the stencil table texture       *)
(* buffers (GLStencilTableTBO).                                            *)
(*                                                                         *)
(* Every handler of the file is one action.  A handler is translated as    *)
(* the sequence of GL commands it issues, in source order; the commands    *)
(* are run against a model of the GL context (Apply / Run), so that the    *)
(* state a handler leaves behind and the state each draw call sees are     *)
(* computed from the commands, not asserted.                               *)
(***************************************************************************)
EXTENDS Integers, Sequences, FiniteSets, TLC

(* ----------------------------- bounds --------------------------------- *)

\* dstDesc.stride ranges over 1..MaxStride and dstDesc.offset over
\* -1..MaxStride
MaxStride == 3
\* dstDesc.length ranges over 0..MaxLength
MaxLength == 2
\* numPatchCoords, start and end range over 0..MaxCount
MaxCount == 2
\* stencilTable->GetNumStencils() ranges over 0..MaxStencils
MaxStencils == 1

(* --------------------------- constants -------------------------------- *)

\* sizeof(float), the unit of the byte offsets given to glBindBufferRange
SizeofFloat == 4
\* number of texture units EvalStencils unbinds
StencilUnits == 5
\* number of texture units EvalPatches unbinds
PatchUnits == 3

(* ----------------------------- helpers -------------------------------- *)

\* the C++ remainder a % b for b > 0: truncated towards zero, so the
\* result has the sign of a
CRem(a, b) == IF a >= 0 THEN a % b ELSE 0 - ((0 - a) % b)

\* n copies of x (none when n <= 0): a counted push_back loop
Rep(n, x) == [i \in 1..n |-> x]

\* a GL command with its integer arguments
Cmd(op, a) == [op |-> op, a |-> a]

\* lowest name >= 1 not in use (glGen* / glCreate* return an unused name)
RECURSIVE FreshFrom(_, _)
FreshFrom(used, n) == IF n \in used THEN FreshFrom(used, n + 1) ELSE n
Fresh(used) == FreshFrom(used, 1)

\* buffers owned by the caller: srcBuffer, dstBuffer, duBuffer/dvBuffer,
\* patchCoordsBuffer.  Their names are disjoint from the names the file
\* generates itself.
ExtBuffer(i) == 100 + i

(* ------------------------- the GL context ----------------------------- *)

\* The part of the GL context the file reads or changes.  Object names are
\* live from glGen*/glCreate* to glDelete*; staleDelete records a glDelete*
\* of a non-zero name that is not live (a second delete of the same object).
GLInit(discard, arrayBuffer) ==
    [progLive |-> {}, varyings |-> <<>>, shaderLive |-> {}, texLive |-> {},
     bufLive |-> {}, vaoLive |-> {},
     program |-> 0, discard |-> discard, activeUnit |-> 0,
     texUnit |-> [u \in 0..(StencilUnits - 1) |-> 0],
     tfGeneric |-> 0, tfIndexed |-> [buf |-> 0, off |-> 0, size |-> 0],
     arrayBuffer |-> arrayBuffer, vao |-> 0, attribs |-> {},
     xfb |-> FALSE, staleDelete |-> FALSE]

\* what glDelete* does to a set of live names
DeleteName(live, n) == live \ {n}
IsStale(live, n) == n # 0 /\ n \notin live

\* The floats a transform feedback draw of `count` points captures: vertex
\* i writes one record of Len(varyings) components at the bound range's
\* start + i * Len(varyings); a gl_SkipComponents1 entry leaves its
\* component untouched; a record that does not fit in the bound range is
\* not captured.  Offsets and sizes of the range are in bytes.
XfbWrites(g, count) ==
    IF ~g.xfb \/ g.program \notin g.progLive THEN {}
    ELSE LET v == g.varyings[g.program]
             R == Len(v)
             base == g.tfIndexed.off \div SizeofFloat
             room == g.tfIndexed.size \div SizeofFloat
         IN  { [buf |-> g.tfIndexed.buf, index |-> base + ip[1] * R + (ip[2] - 1),
                elem |-> ip[1], comp |-> v[ip[2]][2]] :
               ip \in { jq \in (0..(count - 1)) \X (1..R) :
                          /\ Len(v[jq[2]]) = 2
                          /\ (jq[1] + 1) * R <= room } }

\* the context state a draw call sees
DrawSnapshot(g, count) ==
    [count |-> count, program |-> g.program, discard |-> g.discard,
     vao |-> g.vao, xfb |-> g.xfb, tf |-> g.tfIndexed, tfGeneric |-> g.tfGeneric]

\* the effect of one GL command on the context
Apply(g, c) ==
    LET a == c.a IN
    CASE c.op = "glGenBuffers" -> [g EXCEPT !.bufLive = @ \cup {a[1]}]
      [] c.op = "glGenTextures" -> [g EXCEPT !.texLive = @ \cup {a[1]}]
      [] c.op = "glGenVertexArrays" -> [g EXCEPT !.vaoLive = @ \cup {a[1]}]
      [] c.op = "glCreateShader" -> [g EXCEPT !.shaderLive = @ \cup {a[1]}]
      [] c.op = "glCreateProgram" ->
            [g EXCEPT !.progLive = @ \cup {a[1]},
                      !.varyings = (a[1] :> <<>>) @@ @]
      [] c.op = "glTransformFeedbackVaryings" ->
            [g EXCEPT !.varyings = (a[1] :> a[2]) @@ @]
      [] c.op = "glDeleteProgram" ->
            [g EXCEPT !.progLive = DeleteName(@, a[1]),
                      !.varyings = [p \in DOMAIN g.varyings \ {a[1]} |-> g.varyings[p]],
                      !.staleDelete = @ \/ IsStale(g.progLive, a[1])]
      [] c.op = "glDeleteShader" ->
            [g EXCEPT !.shaderLive = DeleteName(@, a[1]),
                      !.staleDelete = @ \/ IsStale(g.shaderLive, a[1])]
      [] c.op = "glDeleteBuffers" ->
            [g EXCEPT !.bufLive = DeleteName(@, a[1]),
                      !.arrayBuffer = IF @ = a[1] THEN 0 ELSE @,
                      !.tfGeneric = IF @ = a[1] THEN 0 ELSE @,
                      !.staleDelete = @ \/ IsStale(g.bufLive, a[1])]
      [] c.op = "glDeleteTextures" ->
            [g EXCEPT !.texLive = DeleteName(@, a[1]),
                      !.texUnit = [u \in DOMAIN g.texUnit |->
                                    IF g.texUnit[u] = a[1] THEN 0 ELSE g.texUnit[u]],
                      !.staleDelete = @ \/ IsStale(g.texLive, a[1])]
      [] c.op = "glDeleteVertexArrays" ->
            [g EXCEPT !.vaoLive = DeleteName(@, a[1]),
                      !.vao = IF @ = a[1] THEN 0 ELSE @,
                      !.staleDelete = @ \/ IsStale(g.vaoLive, a[1])]
      [] c.op = "glBindBuffer(GL_ARRAY_BUFFER)" -> [g EXCEPT !.arrayBuffer = a[1]]
      [] c.op = "glBindBuffer(GL_TRANSFORM_FEEDBACK_BUFFER)" ->
            [g EXCEPT !.tfGeneric = a[1]]
      [] c.op = "glBindBufferRange(GL_TRANSFORM_FEEDBACK_BUFFER)" ->
            \* GL_INVALID_VALUE, and no change, for a negative offset or a
            \* size that is not positive
            IF a[3] < 0 \/ a[4] <= 0 \/ a[1] # 0 THEN g
            ELSE [g EXCEPT !.tfGeneric = a[2],
                           !.tfIndexed = [buf |-> a[2], off |-> a[3], size |-> a[4]]]
      [] c.op = "glBindTexture(GL_TEXTURE_BUFFER)" ->
            [g EXCEPT !.texUnit[g.activeUnit] = a[1]]
      [] c.op = "glActiveTexture" -> [g EXCEPT !.activeUnit = a[1]]
      [] c.op = "glBindVertexArray" -> [g EXCEPT !.vao = a[1], !.attribs = {}]
      [] c.op = "glEnable(GL_RASTERIZER_DISCARD)" -> [g EXCEPT !.discard = TRUE]
      [] c.op = "glDisable(GL_RASTERIZER_DISCARD)" -> [g EXCEPT !.discard = FALSE]
      [] c.op = "glUseProgram" -> [g EXCEPT !.program = a[1]]
      [] c.op = "glEnableVertexAttribArray" -> [g EXCEPT !.attribs = @ \cup {a[1]}]
      [] c.op = "glDisableVertexAttribArray" -> [g EXCEPT !.attribs = @ \ {a[1]}]
      [] c.op = "glBeginTransformFeedback" ->
            \* GL_INVALID_OPERATION without a linked program in use or
            \* without a buffer at binding 0
            [g EXCEPT !.xfb = g.program \in g.progLive /\ g.tfIndexed.buf # 0]
      [] c.op = "glEndTransformFeedback" -> [g EXCEPT !.xfb = FALSE]
      [] OTHER -> g

\* Runs a handler's commands in order.  Returns the context they leave,
\* the snapshot of every draw call, and the floats the draws captured.
\* one command: the context after it, and what a draw call saw and captured
RunStep(acc, c) ==
    IF c.op = "glDrawArrays"
    THEN [gl |-> Apply(acc.gl, c),
          draws |-> Append(acc.draws, DrawSnapshot(acc.gl, c.a[1])),
          written |-> acc.written \cup XfbWrites(acc.gl, c.a[1])]
    ELSE [gl |-> Apply(acc.gl, c), draws |-> acc.draws, written |-> acc.written]

RECURSIVE RunFrom(_, _, _)
RunFrom(acc, cmds, i) ==
    IF i > Len(cmds) THEN acc
    ELSE LET next == RunStep(acc, cmds[i])
         IN  IF next.gl.xfb \in BOOLEAN THEN RunFrom(next, cmds, i + 1) ELSE acc
Run(g, cmds) == RunFrom([gl |-> g, draws |-> <<>>, written |-> {}], cmds, 1)

(* ---------------------- GLStencilTableTBO ----------------------------- *)

\* CreateGLTextureBuffer without glDeleteBuffers
CreateGLTextureBufferLeaky(g, dsa) ==
    LET buffer == Fresh(g.bufLive)
        devicePtr == Fresh(g.texLive)
    IN  [log |-> << Cmd("glGenBuffers", <<buffer>>),
                    Cmd("glGenTextures", <<devicePtr>>),
                    Cmd("glNamedBufferDataEXT", <<buffer>>),
                    Cmd("glTextureBufferEXT", <<devicePtr, buffer>>) >>,
         ret |-> devicePtr]

\* createGLTextureBuffer(src, type).  `dsa` is whether the direct state
\* access entry points are present.  src is not empty (src.at(0)).
\* Returns the commands issued and the texture name returned.
CreateGLTextureBuffer(g, dsa) ==
    LET buffer == Fresh(g.bufLive)
        devicePtr == Fresh(g.texLive)
        prevArray == g.arrayBuffer
        prevTexture == g.texUnit[g.activeUnit]
        upload ==
            IF dsa
            THEN << Cmd("glNamedBufferDataEXT", <<buffer>>),
                    Cmd("glTextureBufferEXT", <<devicePtr, buffer>>) >>
            ELSE << Cmd("glGetIntegerv(GL_ARRAY_BUFFER_BINDING)", <<prevArray>>),
                    Cmd("glBindBuffer(GL_ARRAY_BUFFER)", <<buffer>>),
                    Cmd("glBufferData(GL_ARRAY_BUFFER)", <<>>),
                    Cmd("glBindBuffer(GL_ARRAY_BUFFER)", <<prevArray>>),
                    Cmd("glGetIntegerv(GL_TEXTURE_BINDING_BUFFER)", <<prevTexture>>),
                    Cmd("glBindTexture(GL_TEXTURE_BUFFER)", <<devicePtr>>),
                    Cmd("glTexBuffer(GL_TEXTURE_BUFFER)", <<buffer>>),
                    Cmd("glBindTexture(GL_TEXTURE_BUFFER)", <<prevTexture>>) >>
    IN  [log |-> << Cmd("glGenBuffers", <<buffer>>),
                    Cmd("glGenTextures", <<devicePtr>>) >>
                 \o upload
                 \o << Cmd("glDeleteBuffers", <<buffer>>) >>,
         ret |-> devicePtr]

\* GLStencilTableTBO::GLStencilTableTBO(stencilTable): the object built
\* and the commands issued.  The four tables of a table with stencils
\* are not empty.
TBOConstruct(g, numStencils, dsa) ==
    IF numStencils > 0
    THEN LET c1 == CreateGLTextureBuffer(g, dsa)
             g1 == Run(g, c1.log).gl
             c2 == CreateGLTextureBuffer(g1, dsa)
             g2 == Run(g1, c2.log).gl
             c3 == CreateGLTextureBuffer(g2, dsa)
             g3 == Run(g2, c3.log).gl
             c4 == CreateGLTextureBuffer(g3, dsa)
         IN  [obj |-> [state |-> "live", numStencils |-> numStencils,
                       sizes |-> c1.ret, offsets |-> c2.ret,
                       indices |-> c3.ret, weights |-> c4.ret],
              log |-> c1.log \o c2.log \o c3.log \o c4.log]
    ELSE [obj |-> [state |-> "live", numStencils |-> numStencils,
                   sizes |-> 0, offsets |-> 0, indices |-> 0, weights |-> 0],
          log |-> <<>>]

\* if (handle) glDeleteTextures(1, &handle)
DeleteTextureIf(handle) ==
    IF handle # 0 THEN << Cmd("glDeleteTextures", <<handle>>) >> ELSE <<>>

\* GLStencilTableTBO::~GLStencilTableTBO()
TBODestruct(obj) ==
    DeleteTextureIf(obj.sizes) \o DeleteTextureIf(obj.offsets)
        \o DeleteTextureIf(obj.weights) \o DeleteTextureIf(obj.indices)

(* -------------------------- GLXFBEvaluator ---------------------------- *)

\* VertexBufferDescriptor values given as dstDesc
DstDescs == [offset : (0 - 1)..MaxStride,
             length : 0..MaxLength,
             stride : 1..MaxStride]

\* VertexBufferDescriptor values given as srcDesc
SrcDescs == {[offset |-> 0, length |-> 1, stride |-> 1]}

\* uniform names looked up for the two kernels, in source order
StencilUniforms == << "vertexBuffer", "srcOffset", "sizes", "offsets",
                      "indices", "weights", "batchStart", "batchEnd" >>
PatchUniforms == << "vertexBuffer", "srcOffset", "patchArray",
                    "patchParamBuffer", "patchIndexBuffer" >>

\* glGetUniformLocation(program, names[i]): a location, or -1 when the
\* linked program has no such active uniform
UniformLocation(names, i, active) == IF active THEN i - 1 ELSE 0 - 1
UniformLocations(names, active) ==
    [n \in {names[i] : i \in 1..Len(names)} |->
        UniformLocation(names, CHOOSE i \in 1..Len(names) : names[i] = n, active)]

\* memset(&kernel, 0, sizeof(kernel))
ZeroKernel(names) ==
    [program |-> 0, uniform |-> [n \in {names[i] : i \in 1..Len(names)} |-> 0]]

\* GLXFBEvaluator::GLXFBEvaluator()
NewEvaluator ==
    [alive |-> TRUE, srcBufferTexture |-> 0,
     stencilKernel |-> ZeroKernel(StencilUniforms),
     patchKernel |-> ZeroKernel(PatchUniforms)]

\* snprintf(attrName, sizeof(attrName), "outVertexBuffer[%d]", i)
AttrName(i) == <<"outVertexBuffer", i>>
SkipComponent == <<"gl_SkipComponents1">>

\* int primvarOffset = (dstDesc.offset % dstDesc.stride)
PrimvarOffset(dstDesc) == CRem(dstDesc.offset, dstDesc.stride)

\* XfbOutputs with the trailing skips counted from dstDesc.length alone
XfbOutputsFromLength(dstDesc) ==
    LET primvarOffset == PrimvarOffset(dstDesc)
    IN  Rep(primvarOffset, SkipComponent)
        \o [i \in 1..dstDesc.length |-> AttrName(i - 1)]
        \o Rep(dstDesc.stride - dstDesc.length, SkipComponent)

\* the `outputs` vector compileKernel hands to glTransformFeedbackVaryings
XfbOutputs(dstDesc) ==
    LET primvarOffset == PrimvarOffset(dstDesc)
    IN  Rep(primvarOffset, SkipComponent)
        \o [i \in 1..dstDesc.length |-> AttrName(i - 1)]
        \o Rep(dstDesc.stride - (primvarOffset + dstDesc.length), SkipComponent)

\* Far::Error(Far::FAR_RUNTIME_ERROR, ...), kept in the command log
FarError == Cmd("Far::Error(FAR_RUNTIME_ERROR)", <<>>)

\* LinkFailed without program = 0
LinkFailedKeepsHandle(program, shader) ==
    [log |-> << Cmd("glGetShaderInfoLog", <<shader>>), FarError,
                Cmd("glGetProgramInfoLog", <<program>>), FarError,
                Cmd("glDeleteProgram", <<program>>) >>,
     program |-> program]

\* compileKernel, the branch taken for linked == GL_FALSE
LinkFailed(program, shader) ==
    [log |-> << Cmd("glGetShaderInfoLog", <<shader>>), FarError,
                Cmd("glGetProgramInfoLog", <<program>>), FarError,
                Cmd("glDeleteProgram", <<program>>) >>,
     program |-> 0]

\* compileKernel(srcDesc, dstDesc, kernelDefine); `linked` is the link
\* status the driver reports
CompileKernel(g, srcDesc, dstDesc, kernelDefine, linked) ==
    LET program == Fresh(g.progLive)
        shader == Fresh(g.shaderLive)
        failed == IF linked THEN [log |-> <<>>, program |-> program]
                  ELSE LinkFailed(program, shader)
    IN  [log |-> << Cmd("glCreateProgram", <<program>>),
                    Cmd("glCreateShader", <<shader>>),
                    Cmd("glShaderSource", <<shader, srcDesc.length, srcDesc.stride, kernelDefine>>),
                    Cmd("glCompileShader", <<shader>>),
                    Cmd("glAttachShader", <<program, shader>>),
                    Cmd("glTransformFeedbackVaryings", <<program, XfbOutputs(dstDesc)>>),
                    Cmd("glLinkProgram", <<program>>),
                    Cmd("glGetProgramiv(GL_LINK_STATUS)", <<program, linked>>) >>
                 \o failed.log
                 \o << Cmd("glDeleteShader", <<shader>>) >>,
         program |-> failed.program]

\* if (kernel.program) glDeleteProgram(kernel.program)
DeleteProgramIf(program) ==
    IF program # 0 THEN << Cmd("glDeleteProgram", <<program>>) >> ELSE <<>>

\* the glGetUniformLocation calls that cache a kernel's locations
LookupLog(program, names) ==
    [i \in 1..Len(names) |-> Cmd("glGetUniformLocation", <<program, names[i]>>)]

\* GLXFBEvaluator::Compile(srcDesc, dstDesc).  linkS, linkP: the link status
\* of the stencil and of the patch kernel; active: whether the linked
\* programs keep their uniforms active.
Compile(ev, g, srcDesc, dstDesc, linkS, linkP, active) ==
    LET del1 == DeleteProgramIf(ev.stencilKernel.program)
        g1 == Run(g, del1).gl
        k1 == CompileKernel(g1, srcDesc, dstDesc,
                            "OPENSUBDIV_GLSL_XFB_KERNEL_EVAL_STENCILS", linkS)
        g2 == Run(g1, k1.log).gl
        ev1 == [ev EXCEPT !.stencilKernel.program = k1.program]
        ev2 == [ev1 EXCEPT !.stencilKernel.uniform =
                               UniformLocations(StencilUniforms, active)]
        log2 == del1 \o k1.log \o LookupLog(k1.program, StencilUniforms)
        del2 == DeleteProgramIf(ev.patchKernel.program)
        g3 == Run(g2, del2).gl
        k2 == CompileKernel(g3, srcDesc, dstDesc,
                            "OPENSUBDIV_GLSL_XFB_KERNEL_EVAL_PATCHES", linkP)
        g4 == Run(g3, k2.log).gl
        ev3 == [ev2 EXCEPT !.patchKernel.program = k2.program]
        ev4 == [ev3 EXCEPT !.patchKernel.uniform =
                               UniformLocations(PatchUniforms, active)]
        log4 == log2 \o del2 \o k2.log
        texture == Fresh(g4.texLive)
    IN  IF k1.program = 0
        THEN [ev |-> ev1, log |-> del1 \o k1.log, ret |-> FALSE]
        ELSE IF k2.program = 0
        THEN [ev |-> ev3, log |-> log4, ret |-> FALSE]
        ELSE IF ev.srcBufferTexture = 0
        THEN [ev |-> [ev4 EXCEPT !.srcBufferTexture = texture],
              log |-> log4 \o LookupLog(k2.program, PatchUniforms)
                           \o << Cmd("glGenTextures", <<texture>>) >>,
              ret |-> TRUE]
        ELSE [ev |-> ev4,
              log |-> log4 \o LookupLog(k2.program, PatchUniforms),
              ret |-> TRUE]

\* EvaluatorDestruct deleting the stencil program in place of the patch
\* program
EvaluatorDestructSameProgram(ev) ==
    DeleteProgramIf(ev.stencilKernel.program)
        \o DeleteProgramIf(ev.stencilKernel.program)
        \o DeleteTextureIf(ev.srcBufferTexture)

\* GLXFBEvaluator::~GLXFBEvaluator()
EvaluatorDestruct(ev) ==
    DeleteProgramIf(ev.stencilKernel.program)
        \o DeleteProgramIf(ev.patchKernel.program)
        \o DeleteTextureIf(ev.srcBufferTexture)

\* GLXFBEvaluator::Synchronize(kernel)
Synchronize == << Cmd("glFinish", <<>>) >>

\* bindTexture(sampler, texture, unit)
BindTexture(sampler, texture, unit) ==
    IF sampler = 0 - 1 THEN <<>>
    ELSE << Cmd("glUniform1i", <<sampler, unit>>),
            Cmd("glActiveTexture", <<unit>>),
            Cmd("glBindTexture(GL_TEXTURE_BUFFER)", <<texture>>),
            Cmd("glActiveTexture", <<0>>) >>

\* DstBufferBindOffset without the alignment to the vertex boundary
DstBufferBindOffsetUnaligned(dstDesc) == dstDesc.offset

\* int dstBufferBindOffset = dstDesc.offset - (dstDesc.offset % dstDesc.stride)
DstBufferBindOffset(dstDesc) ==
    dstDesc.offset - CRem(dstDesc.offset, dstDesc.stride)

\* glBindBufferRange(GL_TRANSFORM_FEEDBACK_BUFFER, 0, dstBuffer,
\*                   dstBufferBindOffset * sizeof(float),
\*                   count * dstDesc.stride * sizeof(float))
BindDestination(dstBuffer, dstDesc, count) ==
    Cmd("glBindBufferRange(GL_TRANSFORM_FEEDBACK_BUFFER)",
        <<0, dstBuffer, DstBufferBindOffset(dstDesc) * SizeofFloat,
          count * dstDesc.stride * SizeofFloat>>)

\* the vertex array, program and source texture set-up both Eval
\* functions start with
EvalSetup(vao, program, srcBufferTexture, srcBuffer) ==
    << Cmd("glGenVertexArrays", <<vao>>),
       Cmd("glBindVertexArray", <<vao>>),
       Cmd("glEnable(GL_RASTERIZER_DISCARD)", <<>>),
       Cmd("glUseProgram", <<program>>),
       Cmd("glBindTexture(GL_TEXTURE_BUFFER)", <<srcBufferTexture>>),
       Cmd("glTexBuffer(GL_TEXTURE_BUFFER)", <<srcBuffer>>),
       Cmd("glBindTexture(GL_TEXTURE_BUFFER)", <<0>>) >>

\* glBeginTransformFeedback; glDrawArrays; glEndTransformFeedback
XfbDraw(count) ==
    << Cmd("glBeginTransformFeedback", <<>>),
       Cmd("glDrawArrays", <<count>>),
       Cmd("glEndTransformFeedback", <<>>) >>

\* for (i = 0; i < units; ++i) { glActiveTexture(GL_TEXTURE0 + i);
\*                               glBindTexture(GL_TEXTURE_BUFFER, 0); }
RECURSIVE UnbindTextures(_)
UnbindTextures(units) ==
    IF units <= 0 THEN <<>>
    ELSE UnbindTextures(units - 1)
         \o << Cmd("glActiveTexture", <<units - 1>>),
               Cmd("glBindTexture(GL_TEXTURE_BUFFER)", <<0>>) >>

\* the state restored after the draw, up to glActiveTexture(GL_TEXTURE0)
EvalRestore(units) ==
    << Cmd("glBindBuffer(GL_TRANSFORM_FEEDBACK_BUFFER)", <<0>>) >>
    \o UnbindTextures(units)
    \o << Cmd("glDisable(GL_RASTERIZER_DISCARD)", <<>>),
          Cmd("glUseProgram", <<0>>),
          Cmd("glActiveTexture", <<0>>) >>

\* RevertVao without glDeleteVertexArrays
RevertVaoKeeps(vao) == << Cmd("glBindVertexArray", <<0>>) >>

\* glBindVertexArray(0); glDeleteVertexArrays(1, &vao)
RevertVao(vao) ==
    << Cmd("glBindVertexArray", <<0>>),
       Cmd("glDeleteVertexArrays", <<vao>>) >>

\* if (!_stencilKernel.program) return false
NoStencilKernel(ev) == ev.stencilKernel.program = 0

\* NoPatchKernel testing the stencil kernel's program
NoPatchKernelOther(ev) == ev.stencilKernel.program = 0

\* if (!_patchKernel.program) return false
NoPatchKernel(ev) == ev.patchKernel.program = 0

\* EmptyBatch with < for <=
EmptyBatchStrict(count) == count < 0

\* if (count <= 0) return true
EmptyBatch(count) == count <= 0

\* DerivativesRequested with && for ||
DerivativesRequestedBoth(duBuffer, dvBuffer) == duBuffer # 0 /\ dvBuffer # 0

\* if (duBuffer != 0 || dvBuffer != 0)
DerivativesRequested(duBuffer, dvBuffer) == duBuffer # 0 \/ dvBuffer # 0

\* GLXFBEvaluator::EvalStencils(srcBuffer, srcDesc, dstBuffer, dstDesc,
\*     sizesTexture, offsetsTexture, indicesTexture, weightsTexture,
\*     start, end): the value returned and the commands issued
EvalStencils(ev, g, srcBuffer, srcDesc, dstBuffer, dstDesc, tex, start, end) ==
    LET k == ev.stencilKernel
        count == end - start
        vao == Fresh(g.vaoLive)
    IN  IF NoStencilKernel(ev) THEN [ret |-> FALSE, log |-> <<>>]
        ELSE IF EmptyBatch(count) THEN [ret |-> TRUE, log |-> <<>>]
        ELSE [ret |-> TRUE,
              log |-> EvalSetup(vao, k.program, ev.srcBufferTexture, srcBuffer)
                  \o BindTexture(k.uniform["vertexBuffer"], ev.srcBufferTexture, 0)
                  \o BindTexture(k.uniform["sizes"], tex.sizes, 1)
                  \o BindTexture(k.uniform["offsets"], tex.offsets, 2)
                  \o BindTexture(k.uniform["indices"], tex.indices, 3)
                  \o BindTexture(k.uniform["weights"], tex.weights, 4)
                  \o << Cmd("glUniform1i", <<k.uniform["batchStart"], start>>),
                        Cmd("glUniform1i", <<k.uniform["batchEnd"], end>>),
                        Cmd("glUniform1i", <<k.uniform["srcOffset"], srcDesc.offset>>),
                        BindDestination(dstBuffer, dstDesc, count) >>
                  \o XfbDraw(count)
                  \o EvalRestore(StencilUnits)
                  \o RevertVao(vao)]

\* GLXFBEvaluator::EvalPatches(srcBuffer, srcDesc, dstBuffer, dstDesc,
\*     duBuffer, duDesc, dvBuffer, dvDesc, numPatchCoords,
\*     patchCoordsBuffer, patchArrays, patchIndexTexture, patchParamTexture)
EvalPatches(ev, g, srcBuffer, srcDesc, dstBuffer, dstDesc, duBuffer, dvBuffer, numPatchCoords, patchCoordsBuffer, patchIndexTexture, patchParamTexture) ==
    LET k == ev.patchKernel
        vao == Fresh(g.vaoLive)
    IN  IF NoPatchKernel(ev) THEN [ret |-> FALSE, log |-> <<>>]
        ELSE [ret |-> TRUE,
              log |-> (IF DerivativesRequested(duBuffer, dvBuffer)
                       THEN <<FarError>> ELSE <<>>)
                  \o EvalSetup(vao, k.program, ev.srcBufferTexture, srcBuffer)
                  \o BindTexture(k.uniform["vertexBuffer"], ev.srcBufferTexture, 0)
                  \o BindTexture(k.uniform["patchParamBuffer"], patchParamTexture, 1)
                  \o BindTexture(k.uniform["patchIndexBuffer"], patchIndexTexture, 2)
                  \o << Cmd("glUniform4iv", <<k.uniform["patchArray"]>>),
                        Cmd("glUniform1i", <<k.uniform["srcOffset"], srcDesc.offset>>),
                        Cmd("glEnableVertexAttribArray", <<0>>),
                        Cmd("glEnableVertexAttribArray", <<1>>),
                        Cmd("glBindBuffer(GL_ARRAY_BUFFER)", <<patchCoordsBuffer>>),
                        Cmd("glVertexAttribIPointer", <<0>>),
                        Cmd("glVertexAttribPointer", <<1>>),
                        BindDestination(dstBuffer, dstDesc, numPatchCoords) >>
                  \o XfbDraw(numPatchCoords)
                  \o EvalRestore(PatchUnits)
                  \o << Cmd("glDisableVertexAttribArray", <<0>>),
                        Cmd("glDisableVertexAttribArray", <<1>>) >>
                  \o RevertVao(vao)]

(* --------------------------- state machine ---------------------------- *)

\* gl:    the GL context
\* evalr: the GLXFBEvaluator object
\* tbo:   the GLStencilTableTBO object
\* app:   the destination descriptor the application compiles for; its
\*        batches share its length and stride and differ in offset
\* last:  the call in progress of returning: its name, arguments, return
\*        value, the commands it issued, what each of its draws saw and
\*        captured; "idle" between calls
VARIABLES gl, evalr, tbo, app, last

vars == <<gl, evalr, tbo, app, last>>

\* textures owned by the caller: the patch index and patch param tables,
\* and stencil tables not held in a GLStencilTableTBO
ExtTexture(i) == 200 + i

\* what a call leaves in `last`
Called(op, args, ret, log, run) ==
    [op |-> op, args |-> args, ret |-> ret, log |-> log,
     draws |-> run.draws, written |-> run.written]

Idle == [op |-> "idle", args |-> <<>>, ret |-> TRUE, log |-> <<>>,
         draws |-> <<>>, written |-> {}]

\* the textures of the stencil table passed to EvalStencils
TableTextures ==
    IF tbo.state = "live"
    THEN [sizes |-> tbo.sizes, offsets |-> tbo.offsets,
          indices |-> tbo.indices, weights |-> tbo.weights]
    ELSE [sizes |-> ExtTexture(3), offsets |-> ExtTexture(4),
          indices |-> ExtTexture(5), weights |-> ExtTexture(6)]

\* the descriptors of the application's batches
BatchDescs == {d \in DstDescs : d.length = app.length /\ d.stride = app.stride}

Init ==
    /\ gl = GLInit(FALSE, 0)
    /\ evalr = NewEvaluator
    /\ tbo = [state |-> "none", numStencils |-> 0, sizes |-> 0, offsets |-> 0,
              indices |-> 0, weights |-> 0]
    /\ app \in DstDescs
    /\ last = Idle

ConstructTBO ==
    /\ last.op = "idle"
    /\ tbo.state # "live"
    /\ \E numStencils \in 0..MaxStencils, dsa \in BOOLEAN :
          LET c == TBOConstruct(gl, numStencils, dsa)
              run == Run(gl, c.log)
          IN  /\ tbo' = c.obj
              /\ gl' = run.gl
              /\ last' = Called("GLStencilTableTBO",
                                [numStencils |-> numStencils, before |-> gl],
                                TRUE, c.log, run)
    /\ UNCHANGED <<evalr, app>>

DestroyTBO ==
    /\ last.op = "idle"
    /\ tbo.state = "live"
    /\ LET log == TBODestruct(tbo)
           run == Run(gl, log)
       IN  /\ tbo' = [tbo EXCEPT !.state = "destroyed"]
           /\ gl' = run.gl
           /\ last' = Called("~GLStencilTableTBO", <<>>, TRUE, log, run)
    /\ UNCHANGED <<evalr, app>>

CompileCall ==
    /\ last.op = "idle"
    /\ evalr.alive
    /\ \E srcDesc \in SrcDescs,
          linkS \in BOOLEAN, linkP \in BOOLEAN, active \in BOOLEAN :
          LET c == Compile(evalr, gl, srcDesc, app, linkS, linkP, active)
              run == Run(gl, c.log)
          IN  /\ evalr' = c.ev
              /\ gl' = run.gl
              /\ last' = Called("Compile",
                                [dstDesc |-> app, before |-> evalr, glBefore |-> gl],
                                c.ret, c.log, run)
    /\ UNCHANGED <<tbo, app>>

EvalStencilsCall ==
    /\ last.op = "idle"
    /\ evalr.alive
    /\ \E srcDesc \in SrcDescs, dstDesc \in BatchDescs,
          start \in 0..MaxCount, end \in 0..MaxCount :
          LET c == EvalStencils(evalr, gl, ExtBuffer(1), srcDesc, ExtBuffer(2),
                                dstDesc, TableTextures, start, end)
              run == Run(gl, c.log)
          IN  /\ gl' = run.gl
              /\ last' = Called("EvalStencils",
                                [dstDesc |-> dstDesc, start |-> start, end |-> end,
                                 glBefore |-> gl],
                                c.ret, c.log, run)
    /\ UNCHANGED <<evalr, tbo, app>>

EvalPatchesCall ==
    /\ last.op = "idle"
    /\ evalr.alive
    /\ \E srcDesc \in SrcDescs, dstDesc \in BatchDescs,
          duBuffer \in {0, ExtBuffer(3)}, dvBuffer \in {0, ExtBuffer(4)},
          numPatchCoords \in 0..MaxCount :
          LET c == EvalPatches(evalr, gl, ExtBuffer(1), srcDesc, ExtBuffer(2),
                               dstDesc, duBuffer, dvBuffer, numPatchCoords,
                               ExtBuffer(5), ExtTexture(1), ExtTexture(2))
              run == Run(gl, c.log)
          IN  /\ gl' = run.gl
              /\ last' = Called("EvalPatches",
                                [dstDesc |-> dstDesc, duBuffer |-> duBuffer,
                                 dvBuffer |-> dvBuffer,
                                 numPatchCoords |-> numPatchCoords,
                                 glBefore |-> gl],
                                c.ret, c.log, run)
    /\ UNCHANGED <<evalr, tbo, app>>

SynchronizeCall ==
    /\ last.op = "idle"
    /\ LET run == Run(gl, Synchronize)
       IN  /\ gl' = run.gl
           /\ last' = Called("Synchronize", <<>>, TRUE, Synchronize, run)
    /\ UNCHANGED <<evalr, tbo, app>>

DestroyEvaluator ==
    /\ last.op = "idle"
    /\ evalr.alive
    /\ LET log == EvaluatorDestruct(evalr)
           run == Run(gl, log)
       IN  /\ evalr' = [evalr EXCEPT !.alive = FALSE]
           /\ gl' = run.gl
           /\ last' = Called("~GLXFBEvaluator", [before |-> evalr], TRUE, log, run)
    /\ UNCHANGED <<tbo, app>>

\* The call returns to the application, which takes the result and, before
\* its next call, puts back its own buffer bindings: transform feedback
\* binding 0 and GL_ARRAY_BUFFER.
Return ==
    /\ last.op # "idle"
    /\ last' = Idle
    /\ gl' = [gl EXCEPT !.tfIndexed = [buf |-> 0, off |-> 0, size |-> 0],
                        !.arrayBuffer = 0]
    /\ UNCHANGED <<evalr, tbo, app>>

\* The application binds its own array buffer and, on a texture unit of
\* its choice, its own buffer texture.
CallerBinds ==
    /\ last.op = "idle"
    /\ \E arrayBuffer \in {0, ExtBuffer(5)}, unit \in 0..(StencilUnits - 1),
          texture \in {0, ExtTexture(1)} :
          gl' = [gl EXCEPT !.arrayBuffer = arrayBuffer,
                           !.activeUnit = unit,
                           !.texUnit[unit] = texture]
    /\ UNCHANGED <<evalr, tbo, app, last>>

\* the evaluator and the calls made on it
Next ==
    \/ CompileCall
    \/ EvalStencilsCall
    \/ EvalPatchesCall
    \/ SynchronizeCall
    \/ DestroyEvaluator
    \/ Return

Spec == Init /\ [][Next]_vars

\* the stencil table texture buffers, built and destroyed in a context the
\* application has its own bindings in
InitTBO == Init /\ app = [offset |-> 0, length |-> 1, stride |-> 1]

NextTBO ==
    \/ ConstructTBO
    \/ DestroyTBO
    \/ CallerBinds
    \/ Return

SpecTBO == InitTBO /\ [][NextTBO]_vars

(* ------------------------------ claims -------------------------------- *)

\* positions and number of the commands named op in a log
At(log, op) == {i \in 1..Len(log) : log[i].op = op}
Count(log, op) == Cardinality(At(log, op))

\* position of the k-th command named op in a log
Nth(log, op, k) ==
    CHOOSE i \in At(log, op) : Cardinality({j \in At(log, op) : j < i}) = k - 1

IsEval == last.op \in {"EvalStencils", "EvalPatches"}

\* the Eval call in `last` got past its early returns
Evaluated == IsEval /\ last.log # <<>>

\* number of output elements the Eval call in `last` asks for
EvalCount ==
    IF last.op = "EvalStencils" THEN last.args.end - last.args.start
    ELSE last.args.numPatchCoords

\* the kernel the Eval call in `last` runs
EvalKernel ==
    IF last.op = "EvalStencils" THEN evalr.stencilKernel ELSE evalr.patchKernel

\* v is the skip-component layout of descriptor d: d.stride entries,
\* (d.offset % d.stride) skips, outVertexBuffer[0..length-1], skips up to
\* the stride; component k at position (d.offset % d.stride) + k
SkipLayout(d, v) ==
    LET po == CRem(d.offset, d.stride)
    IN  /\ Len(v) = d.stride
        /\ \A p \in 1..Len(v) :
              v[p] = IF p <= po \/ p > po + d.length
                     THEN <<"gl_SkipComponents1">>
                     ELSE <<"outVertexBuffer", p - po - 1>>
        /\ \A k \in 0..(d.length - 1) :
              /\ po + k + 1 \in 1..Len(v)
              /\ v[po + k + 1] = <<"outVertexBuffer", k>>

LayoutPre(d) ==
    d.stride > 0 /\ d.length >= 0 /\ CRem(d.offset, d.stride) + d.length <= d.stride

\* the lists the Compile call in `last` gave to glTransformFeedbackVaryings
VaryingsBuilt ==
    {last.log[i].a[2] : i \in At(last.log, "glTransformFeedbackVaryings")}

\* C1 as stated: for every dstDesc with stride > 0, length >= 0 and
\* (offset % stride) + length <= stride, each list compileKernel builds is
\* the skip-component layout of dstDesc.  Fails for a negative offset,
\* whose C++ remainder is negative.
C1_AnyOffset ==
    (last.op = "Compile" /\ LayoutPre(last.args.dstDesc))
        => \A v \in VaryingsBuilt : SkipLayout(last.args.dstDesc, v)

\* C1, amended: for every dstDesc with offset >= 0, stride > 0, length >= 0
\* and (offset % stride) + length <= stride, each list compileKernel
\* builds has exactly stride entries: (offset % stride) skips, then
\* outVertexBuffer[0] .. outVertexBuffer[length-1] in order, then skips up
\* to the stride, so component k is at position (offset % stride) + k.
C1_Layout ==
    (last.op = "Compile" /\ LayoutPre(last.args.dstDesc)
                         /\ last.args.dstDesc.offset >= 0)
        => \A v \in VaryingsBuilt : SkipLayout(last.args.dstDesc, v)

\* a Compile whose layout has skips on both sides of the outputs
C1_Witness ==
    /\ last.op = "Compile"
    /\ LayoutPre(last.args.dstDesc)
    /\ last.args.dstDesc.offset >= 0
    /\ CRem(last.args.dstDesc.offset, last.args.dstDesc.stride) > 0
    /\ last.args.dstDesc.length > 0
    /\ CRem(last.args.dstDesc.offset, last.args.dstDesc.stride)
           + last.args.dstDesc.length < last.args.dstDesc.stride
    /\ Cardinality(At(last.log, "glTransformFeedbackVaryings")) = 2

\* the kernel in use at the draw of the Eval call in `last` carries the
\* skip-component layout of the call's dstDesc
LayoutInUse ==
    /\ Len(last.draws) = 1
    /\ last.draws[1].program \in DOMAIN last.args.glBefore.varyings
    /\ SkipLayout(last.args.dstDesc,
                  last.args.glBefore.varyings[last.draws[1].program])

\* the floats that hold component k of element i, for every k and i
Landing(buf, d, n) ==
    { [buf |-> buf, index |-> d.offset + i * d.stride + k, elem |-> i, comp |-> k] :
        <<i, k>> \in (0..(n - 1)) \X (0..(d.length - 1)) }

\* C2: in EvalStencils and EvalPatches, for every dstDesc with stride > 0
\* and offset >= 0, the destination is bound once, at binding 0, at float
\* offset B with B a multiple of stride, 0 <= B <= offset and
\* B + (offset % stride) = offset, for exactly n * stride floats; no float
\* outside [B, B + n*stride) is written; and with the skip-component
\* layout of dstDesc in use, component k of element i lands at float
\* offset + i*stride + k.
C2_BindOffset ==
    (Evaluated /\ last.args.dstDesc.offset >= 0) =>
        LET d == last.args.dstDesc
            n == EvalCount
            binds == At(last.log, "glBindBufferRange(GL_TRANSFORM_FEEDBACK_BUFFER)")
        IN  /\ Cardinality(binds) = 1
            /\ \A i \in binds :
                  LET a == last.log[i].a
                      B == a[3] \div SizeofFloat
                  IN  /\ a[1] = 0
                      /\ a[2] = ExtBuffer(2)
                      /\ a[3] = B * SizeofFloat
                      /\ B % d.stride = 0
                      /\ 0 <= B /\ B <= d.offset
                      /\ B + (d.offset % d.stride) = d.offset
                      /\ a[4] = n * d.stride * SizeofFloat
                      /\ \A w \in last.written :
                            /\ w.buf = a[2]
                            /\ B <= w.index /\ w.index < B + n * d.stride
                      /\ LayoutInUse => last.written = Landing(a[2], d, n)

\* an Eval of two or more elements into a range that starts after the
\* first record, at a component that is not the first of its record
C2_Witness ==
    /\ Evaluated
    /\ last.args.dstDesc.offset > last.args.dstDesc.stride
    /\ last.args.dstDesc.offset % last.args.dstDesc.stride > 0
    /\ last.args.dstDesc.length > 0
    /\ EvalCount >= 2
    /\ LayoutInUse
    /\ Cardinality(last.written) = EvalCount * last.args.dstDesc.length

\* C3: EvalPatches on an evaluator whose patch kernel is compiled reports
\* a FAR_RUNTIME_ERROR when duBuffer != 0 or dvBuffer != 0, and reports no
\* error when both are 0.
C3_Derivatives ==
    (last.op = "EvalPatches" /\ evalr.patchKernel.program # 0) =>
        IF last.args.duBuffer # 0 \/ last.args.dvBuffer # 0
        THEN Count(last.log, "Far::Error(FAR_RUNTIME_ERROR)") = 1
        ELSE Count(last.log, "Far::Error(FAR_RUNTIME_ERROR)") = 0

\* an EvalPatches asked for the dv derivative only
C3_Witness ==
    /\ last.op = "EvalPatches"
    /\ evalr.patchKernel.program # 0
    /\ last.args.duBuffer = 0 /\ last.args.dvBuffer # 0
    /\ Count(last.log, "Far::Error(FAR_RUNTIME_ERROR)") = 1

\* link status and program of the k-th kernel the Compile in `last` linked
Linked(k) == last.log[Nth(last.log, "glGetProgramiv(GL_LINK_STATUS)", k)].a[2]
LinkedProgram(k) == last.log[Nth(last.log, "glGetProgramiv(GL_LINK_STATUS)", k)].a[1]

\* the k-th kernel's link failure was reported twice, its program then
\* deleted, and the program is gone
FailureForwarded(k) ==
    LET at == Nth(last.log, "glGetProgramiv(GL_LINK_STATUS)", k)
        p == LinkedProgram(k)
    IN  /\ at + 5 <= Len(last.log)
        /\ last.log[at + 1].op = "glGetShaderInfoLog"
        /\ last.log[at + 2].op = "Far::Error(FAR_RUNTIME_ERROR)"
        /\ last.log[at + 3].op = "glGetProgramInfoLog"
        /\ last.log[at + 4].op = "Far::Error(FAR_RUNTIME_ERROR)"
        /\ last.log[at + 5] = Cmd("glDeleteProgram", <<p>>)
        /\ p \notin gl.progLive

\* C4: Compile returns true iff both kernels link.  A kernel that fails to
\* link has its failure forwarded as two FAR_RUNTIME_ERROR reports, its
\* program deleted and its stored handle set to 0, and Compile returns
\* false; when the stencil kernel fails, the patch kernel is neither
\* compiled nor touched.
C4_Compile ==
    last.op = "Compile" =>
        LET n == Count(last.log, "glGetProgramiv(GL_LINK_STATUS)")
            failed == {k \in 1..n : ~Linked(k)}
        IN  /\ n \in {1, 2}
            /\ last.ret = (n = 2 /\ Linked(1) /\ Linked(2))
            /\ Linked(1) <=> n = 2
            /\ Count(last.log, "glCreateProgram") = n
            /\ Count(last.log, "Far::Error(FAR_RUNTIME_ERROR)") = 2 * Cardinality(failed)
            /\ \A k \in failed : FailureForwarded(k)
            /\ ~Linked(1) =>
                  /\ evalr.stencilKernel.program = 0
                  /\ ~last.ret
                  /\ evalr.patchKernel = last.args.before.patchKernel
                  /\ last.args.before.patchKernel.program # 0 =>
                        /\ last.args.before.patchKernel.program \in gl.progLive
                        /\ gl.varyings[last.args.before.patchKernel.program] =
                              last.args.glBefore.varyings[last.args.before.patchKernel.program]
            /\ (n = 2 /\ ~Linked(2)) =>
                  /\ evalr.patchKernel.program = 0
                  /\ ~last.ret
            /\ last.ret =>
                  /\ evalr.stencilKernel.program = LinkedProgram(1)
                  /\ evalr.patchKernel.program = LinkedProgram(2)
                  /\ {LinkedProgram(1), LinkedProgram(2)} \subseteq gl.progLive

\* a Compile whose stencil kernel fails to link on an evaluator that
\* holds a patch kernel
C4_Witness ==
    /\ last.op = "Compile"
    /\ ~Linked(1)
    /\ last.args.before.patchKernel.program # 0
    /\ ~last.ret

\* the names the call in `last` generated with the command named op
Generated(op) == {last.log[i].a[1] : i \in At(last.log, op)}

\* every buffer the call in `last` generated is deleted before the next
\* one is generated, and before the call returns
BuffersTemporary ==
    \A i \in At(last.log, "glGenBuffers") :
        \E j \in At(last.log, "glDeleteBuffers") :
            /\ j > i
            /\ last.log[j].a = last.log[i].a
            /\ \A m \in At(last.log, "glGenBuffers") : ~(i < m /\ m < j)

TBOHandles == {tbo.sizes, tbo.offsets, tbo.indices, tbo.weights}

\* C5: a GLStencilTableTBO built from a table without stencils creates no
\* GL object and holds four 0 handles; built from a table with stencils it
\* creates exactly four textures and deletes every temporary buffer before
\* createGLTextureBuffer returns; its destructor deletes each non-zero
\* texture exactly once and issues no delete for a 0 handle, after which
\* no texture or buffer the object generated is left.
C5_TBOLifecycle ==
    /\ last.op = "GLStencilTableTBO" =>
          IF last.args.numStencils = 0
          THEN /\ last.log = <<>>
               /\ TBOHandles = {0}
               /\ gl = last.args.before
          ELSE /\ Count(last.log, "glGenTextures") = 4
               /\ Cardinality(Generated("glGenTextures")) = 4
               /\ Cardinality(TBOHandles) = 4
               /\ TBOHandles = Generated("glGenTextures")
               /\ TBOHandles \subseteq gl.texLive
               /\ Generated("glGenTextures") \cap last.args.before.texLive = {}
               /\ BuffersTemporary
               /\ Count(last.log, "glGenBuffers") = Count(last.log, "glDeleteBuffers")
               /\ gl.bufLive = {}
    /\ last.op = "~GLStencilTableTBO" =>
          /\ \A h \in TBOHandles \ {0} :
                Cardinality({i \in At(last.log, "glDeleteTextures") :
                                last.log[i].a[1] = h}) = 1
          /\ \A i \in At(last.log, "glDeleteTextures") :
                last.log[i].a[1] \in TBOHandles \ {0}
          /\ Len(last.log) = Count(last.log, "glDeleteTextures")
          /\ gl.texLive = {}
          /\ gl.bufLive = {}
    /\ ~gl.staleDelete

\* a table with stencils, built where the application has its own
\* bindings, then destroyed
C5_Witness ==
    /\ last.op = "~GLStencilTableTBO"
    /\ tbo.numStencils > 0
    /\ Count(last.log, "glDeleteTextures") = 4
    /\ gl.activeUnit > 0
    /\ gl.texUnit[gl.activeUnit] # 0

\* C6: while _stencilKernel.program is 0 EvalStencils returns false, and
\* while _patchKernel.program is 0 EvalPatches returns false; either
\* issues no GL command, reports no error and changes nothing.
C6_NotCompiled ==
    (IsEval /\ EvalKernel.program = 0) =>
        /\ last.ret = FALSE
        /\ last.log = <<>>
        /\ last.draws = <<>>
        /\ last.written = {}
        /\ gl = last.args.glBefore

\* an EvalPatches after a Compile that linked the stencil kernel and
\* failed to link the patch kernel
C6_Witness ==
    /\ last.op = "EvalPatches"
    /\ evalr.patchKernel.program = 0
    /\ evalr.stencilKernel.program # 0
    /\ last.ret = FALSE

\* C7: on a compiled evaluator EvalStencils with end <= start returns true
\* and changes nothing: no command is issued, nothing is drawn or written.
C7_EmptyRange ==
    (last.op = "EvalStencils" /\ evalr.stencilKernel.program # 0
                              /\ last.args.end <= last.args.start) =>
        /\ last.ret = TRUE
        /\ last.log = <<>>
        /\ last.draws = <<>>
        /\ last.written = {}
        /\ gl = last.args.glBefore

\* an EvalStencils of an empty range on a compiled evaluator
C7_Witness ==
    /\ last.op = "EvalStencils"
    /\ evalr.stencilKernel.program # 0
    /\ last.args.end = last.args.start
    /\ last.ret = TRUE

\* the texture units the Eval call in `last` unbinds
UnitsUsed ==
    IF last.op = "EvalStencils" THEN 0..(StencilUnits - 1) ELSE 0..(PatchUnits - 1)

C9_Handles ==
    /\ evalr.alive =>
          /\ evalr.stencilKernel.program \in {0} \cup gl.progLive
          /\ evalr.patchKernel.program \in {0} \cup gl.progLive
          /\ evalr.stencilKernel.program # 0 =>
                evalr.stencilKernel.program # evalr.patchKernel.program
          /\ gl.progLive \subseteq {evalr.stencilKernel.program,
                                    evalr.patchKernel.program}
          /\ evalr.srcBufferTexture \in {0} \cup gl.texLive
          /\ gl.texLive \subseteq {evalr.srcBufferTexture}
    /\ ~gl.staleDelete
    /\ IsEval =>
          \A i \in At(last.log, "glUseProgram") :
              last.log[i].a[1] \in {0} \cup last.args.glBefore.progLive
    /\ ~evalr.alive =>
          /\ gl.progLive = {}
          /\ gl.texLive = {}
    /\ last.op = "~GLXFBEvaluator" =>
          /\ Count(last.log, "glDeleteProgram") =
                Cardinality({last.args.before.stencilKernel.program,
                             last.args.before.patchKernel.program} \ {0})
          /\ Count(last.log, "glDeleteTextures") =
                Cardinality({last.args.before.srcBufferTexture} \ {0})

\* the destructor of an evaluator that was compiled twice: once fully,
\* and once with a patch kernel that failed to link
C9_Witness ==
    /\ last.op = "~GLXFBEvaluator"
    /\ last.args.before.stencilKernel.program # 0
    /\ last.args.before.patchKernel.program = 0
    /\ last.args.before.srcBufferTexture # 0
    /\ Count(last.log, "glDeleteProgram") = 1
    /\ Count(last.log, "glDeleteTextures") = 1

====
